---- MODULE Spec2Model ----
\* A model of tardis_code_compare.py: the exporters that put TARDIS simulation
\* results on a shared velocity grid and write the code-comparison text files.
\*
\* Velocities are integers (in an arbitrary unit of km/s); a point of the
\* shared grid is the exact rational nums[i] / den.  The arrays the exporters
\* only carry from a simulation to the file (explosion times, temperatures,
\* densities, fluxes, ion fractions) are kept as symbolic cells that name the
\* array and the position read, so that the place of every value in the
\* output is visible.
EXTENDS Integers, Sequences, FiniteSets, TLC

\* ---------------------------------------------------------------- bounds
MaxSims == 2
MaxShells == 3
MaxV == 3
MaxWave == 2
MaxSpecies == 2

\* ------------------------------------------------------------- arithmetic
SeqMin(s) == CHOOSE m \in {s[k] : k \in DOMAIN s} : \A k \in DOMAIN s : m <= s[k]

SeqMax(s) == CHOOSE m \in {s[k] : k \in DOMAIN s} : \A k \in DOMAIN s : m >= s[k]

\* numpy.diff: the successive differences of an array
np_diff(v) == [k \in 1..(Len(v) - 1) |-> v[k + 1] - v[k]]

\* a rounding that truncates, as int(n / d) would
round_truncating(n, d) == n \div d

\* round(n / d) of Python 3 and numpy for n >= 0, d > 0: to the nearest
\* integer, a tie going to the even neighbour
round(n, d) ==
  LET q == n \div d
      r == n % d
  IN  IF 2 * r < d THEN q
      ELSE IF 2 * r > d THEN q + 1
      ELSE IF q % 2 = 0 THEN q ELSE q + 1

\* a linspace that leaves the end point out (endpoint=False)
np_linspace_open(start, stop, num) ==
  [den  |-> num,
   nums |-> [i \in 1..num |-> start * num + (i - 1) * (stop - start)]]

\* numpy.linspace(start, stop, num), num >= 2: point i is
\* start + (i - 1) * (stop - start) / (num - 1), kept over the denominator num - 1
np_linspace(start, stop, num) ==
  [den  |-> num - 1,
   nums |-> [i \in 1..num |-> start * (num - 1) + (i - 1) * (stop - start)]]

\* ------------------------------------------------------- the velocity grid
\* np.diff(v_middle).min() raises ValueError on an array of one shell
DiffMinRaises(v_middles) == \E s \in DOMAIN v_middles : Len(v_middles[s]) < 2

min_delta_v(v_middles) ==
  SeqMin([s \in DOMAIN v_middles |-> SeqMin(np_diff(v_middles[s]))])

v_min(v_middles) == SeqMin([s \in DOMAIN v_middles |-> SeqMin(v_middles[s])])

v_max(v_middles) == SeqMax([s \in DOMAIN v_middles |-> SeqMax(v_middles[s])])

\* a point count without the extra point
N_shells_one_less(v_middles) ==
  round(v_max(v_middles) - v_min(v_middles), min_delta_v(v_middles)) + 1

N_shells(v_middles) ==
  round(v_max(v_middles) - v_min(v_middles), min_delta_v(v_middles)) + 2

NoGrid == [den |-> 1, nums |-> <<>>]

get_velocity_grid_from_simulations(sims) ==
  LET v_middles == [s \in DOMAIN sims |-> sims[s].v_middle]
  IN  IF DiffMinRaises(v_middles)
      THEN [raised |-> "ValueError", grid |-> NoGrid]
      ELSE [raised |-> "none",
            grid   |-> np_linspace(v_min(v_middles), v_max(v_middles),
                                   N_shells(v_middles))]

\* --------------------------------------------------------- data frames
\* A pandas DataFrame is the sequence of its columns, each a name and the
\* values of its rows; a cell of an external array is a record that names
\* the array and the position read.
None == [q |-> "None"]

\* an array object, as opposed to None
Array(values) == [q |-> "array", values |-> values]

\* pd.DataFrame(arrays).T: one column per array, labelled 0, 1, ...
DataFrameT(arrays) ==
  [c \in DOMAIN arrays |-> [name |-> ToString(c - 1), values |-> arrays[c]]]

\* len(df): the number of rows
df_len(df) == IF df = <<>> THEN 0 ELSE Len(df[1].values)

\* df.insert(0, name, values)
df_insert_first(df, name, values) == <<[name |-> name, values |-> values]>> \o df

Line(fmt, args) == [fmt |-> fmt, args |-> args]

\* float_format='%.6E'
float_format(cell) == [fmt |-> "%.6E", v |-> cell]

\* a to_csv that writes the row index too (index=True)
to_csv_with_index(df) ==
  [r \in 1..df_len(df) |->
     Line("csv", <<float_format([q |-> "index", idx |-> r - 1])>>
                   \o [c \in DOMAIN df |-> float_format(df[c].values[r])])]

\* df.to_csv(f, index=False, float_format='%.6E', sep=' ', header=False):
\* one line per row, the row's cells in column order
to_csv(df) ==
  [r \in 1..df_len(df) |->
     Line("csv", [c \in DOMAIN df |-> float_format(df[c].values[r])])]

\* ---------------------------------------------------------- interpolation
\* the fill value 1e-99
SENTINEL == [kind |-> "const", mant |-> 1, exp10 |-> -99]

\* the value at xn/xd, xp[1] <= xn/xd <= xp[-1]: fp[lo] + w (fp[lo+1] - fp[lo])
\* with the weight w = wnum/wden
interp_at(xn, xd, xp, fp) ==
  LET j == CHOOSE k \in DOMAIN xp :
             /\ xp[k] * xd <= xn
             /\ k = Len(xp) \/ xn < xp[k + 1] * xd
  IN  IF j = Len(xp) \/ xn = xp[j] * xd
      THEN [kind |-> "interp", fp |-> fp, lo |-> j, wnum |-> 0, wden |-> 1]
      ELSE [kind |-> "interp", fp |-> fp, lo |-> j,
            wnum |-> xn - xp[j] * xd, wden |-> xd * (xp[j + 1] - xp[j])]

\* np.interp without left= and right=: the end values of fp fill the outside
np_interp_edge_fill(x, xp, fp, left, right) ==
  [i \in DOMAIN x.nums |->
     IF x.nums[i] < xp[1] * x.den THEN interp_at(xp[1], 1, xp, fp)
     ELSE IF x.nums[i] > xp[Len(xp)] * x.den THEN interp_at(xp[Len(xp)], 1, xp, fp)
     ELSE interp_at(x.nums[i], x.den, xp, fp)]

\* np.interp(x, xp, fp, left=left, right=right), x the grid
np_interp(x, xp, fp, left, right) ==
  [i \in DOMAIN x.nums |->
     IF x.nums[i] < xp[1] * x.den THEN left
     ELSE IF x.nums[i] > xp[Len(xp)] * x.den THEN right
     ELSE interp_at(x.nums[i], x.den, xp, fp)]

\* ------------------------------------------------------ class attributes
Exporters == {"spectra", "tgas", "eden", "ionfrac", "phys"}

\* "velocity" is VelocityInterpolatedOutputFile itself
Classes == Exporters \cup {"velocity"}

data_type(c) == c

first_column_name(c) == IF c = "spectra" THEN "WAVE" ELSE "VEL"

\* the class attribute column_description, split at the spaces
column_description(c) ==
  CASE c = "spectra" -> <<"#wavelength[Ang]", "flux_t0[erg/s/Ang]",
                          "flux_t1[erg/s/Ang]", "...", "flux_tn[erg/s/Ang]">>
    [] c = "tgas"    -> <<"#vel_mid[km/s]", "Tgas_t0[K]", "Tgas_t1[K]", "...",
                          "Tgas_tn[K]">>
    [] c = "eden"    -> <<"#vel_mid[km/s]", "ne_t0[/cm^3]", "ne_t1[/cm^3]", "...",
                          "ne_tn[/cm^3]">>
    [] c = "ionfrac" -> <<"#vel_mid[km/s]">>
    [] c = "phys"    -> <<"#vel_mid[km/s]", "temp[K]", "rho[gcc]", "ne[/cm^3]",
                          "natom[/cm^3]">>

\* the hook get_interpolation_values(sim) of simulation s: the array it hands
\* to np.interp, None where the class leaves the hook as 'pass'
get_interpolation_values(c, s) ==
  CASE c = "tgas" -> [q |-> "t_electrons", sim |-> s]
    [] c = "eden" -> [q |-> "electron_densities", sim |-> s]
    [] OTHER      -> None

\* number of arguments __init__ requires beyond self
init_required_args(c) ==
  CASE c = "ionfrac" -> 5
    [] c = "phys"    -> 8
    [] OTHER         -> 4

\* ------------------------------------------------------- from_simulations
\* sim.model.time_explosion.to(units.day).value of simulation s
time_explosion(s) == [q |-> "time_explosion[d]", sim |-> s]

get_times_from_simulations(sims) == [s \in DOMAIN sims |-> time_explosion(s)]

\* the grid as a column of cells
grid_column(g) == [i \in DOMAIN g.nums |-> [kind |-> "v", num |-> g.nums[i], den |-> g.den]]

get_data_first_column(c, sims) ==
  IF c = "spectra"
  THEN [raised |-> "none",
        column |-> Array([r \in 1..sims[1].n_wave |->
                            [q |-> "wavelength", sim |-> 1, idx |-> r]])]
  ELSE LET g == get_velocity_grid_from_simulations(sims)
       IN  [raised |-> g.raised, column |-> Array(grid_column(g.grid))]

get_data_table(c, sims) ==
  IF c = "spectra"
  THEN [raised |-> "none",
        table  |-> DataFrameT([s \in DOMAIN sims |->
                     [r \in 1..sims[s].n_wave |->
                        [q |-> "luminosity_density_lambda", sim |-> s, idx |-> r]]])]
  ELSE LET g == get_velocity_grid_from_simulations(sims)
       IN  IF g.raised # "none" THEN [raised |-> g.raised, table |-> <<>>]
           ELSE IF get_interpolation_values(c, 1) = None
           THEN [raised |-> "np.interp: fp is None", table |-> <<>>]
           ELSE [raised |-> "none",
                 table  |-> DataFrameT([s \in DOMAIN sims |->
                              np_interp(g.grid, sims[s].v_middle,
                                        get_interpolation_values(c, s),
                                        SENTINEL, SENTINEL)])]

NoObj == [cls |-> "none"]

\* CodeComparisonOutputFile.__init__
CodeComparisonOutputFile_init(c, times, data_table, model_name, data_first_column) ==
  [cls        |-> c,
   times      |-> times,
   data_table |-> IF data_first_column # None
                  THEN df_insert_first(data_table, "wav", data_first_column.values)
                  ELSE data_table,
   model_name |-> model_name]

from_simulations(c, sims, model_name) ==
  LET times == get_times_from_simulations(sims)
      dt    == get_data_table(c, sims)
      fc    == get_data_first_column(c, sims)
  IN  IF dt.raised # "none" THEN [raised |-> dt.raised, obj |-> NoObj]
      ELSE IF fc.raised # "none" THEN [raised |-> fc.raised, obj |-> NoObj]
      ELSE IF init_required_args(c) > 4
      THEN [raised |-> "TypeError: __init__ missing arguments", obj |-> NoObj]
      ELSE [raised |-> "none",
            obj    |-> CodeComparisonOutputFile_init(c, times, dt.table,
                                                     model_name, fc.column)]

\* -------------------------------------------------------------- base write
times_str(o) == o.times

base_fname(o) == data_type(o.cls) \o "_" \o o.model_name \o "_tardis.txt"

\* CodeComparisonOutputFile.write, the lines written to the opened file
base_write(o) ==
  <<Line("#NTIMES: {}", <<Len(o.times)>>),
    Line("#N" \o first_column_name(o.cls) \o ": {}", <<df_len(o.data_table)>>),
    Line("#TIMES[d]: {}", times_str(o)),
    Line("column_description", column_description(o.cls))>>
    \o to_csv(o.data_table)

\* ------------------------------------------------- ion-fraction exporter
\* pyne's nucname.name_zz, symbol to atomic number (the entries used here)
name_zz == [H |-> 1, He |-> 2, Li |-> 3, Ca |-> 20]

\* an __init__ that looks the species up with a default, name_zz.get(species, 0)
IonFracOutputFile_init_lenient(times, data_table, model_name, data_first_column, vel_mid, species) ==
  IF data_first_column # None
  THEN [raised |-> "TypeError: list.insert", obj |-> NoObj]
  ELSE LET species_num == IF species \in DOMAIN name_zz THEN name_zz[species] ELSE 0
       IN  [raised |-> "none",
            obj |-> [cls |-> "ionfrac", times |-> times, data_table |-> data_table,
                     model_name |-> model_name, species |-> species,
                     vel_mid |-> vel_mid, species_num |-> species_num,
                     column_description |->
                       column_description("ionfrac")
                         \o [i \in 1..species_num |-> species \o ToString(i - 1)]]]

\* IonFracOutputFile.__init__; data_table is a list of tables, one per time,
\* so an insert of a first column raises
IonFracOutputFile_init(times, data_table, model_name, data_first_column, vel_mid, species) ==
  IF data_first_column # None
  THEN [raised |-> "TypeError: list.insert", obj |-> NoObj]
  ELSE IF species \notin DOMAIN name_zz
  THEN [raised |-> "KeyError: name_zz", obj |-> NoObj]
  ELSE LET species_num == name_zz[species]
       IN  [raised |-> "none",
            obj |-> [cls |-> "ionfrac", times |-> times, data_table |-> data_table,
                     model_name |-> model_name, species |-> species,
                     vel_mid |-> vel_mid, species_num |-> species_num,
                     column_description |->
                       column_description("ionfrac")
                         \o [i \in 1..species_num |-> species \o ToString(i - 1)]]]

ionfrac_fname(o) ==
  data_type(o.cls) \o "_" \o o.species \o "_" \o o.model_name \o "_tardis.txt"

\* df.insert(0, name, values) on a frame that may have failed already: the
\* values must be as many as the frame's rows, unless the frame is empty
df_insert_checked(r, name, values) ==
  IF r.raised # "none" THEN r
  ELSE IF r.df # <<>> /\ Len(values) # df_len(r.df)
  THEN [raised |-> "ValueError: length of values", df |-> r.df]
  ELSE [raised |-> "none", df |-> df_insert_first(r.df, name, values)]

\* data_table[i].loc[species_num].T: the rows of atomic number Z, one per
\* ionisation stage 0..Z of the plasma's table, transposed to one column per
\* stage and one row per shell; KeyError when the table has no such element
ion_table_loc_T(tab, Z) ==
  IF Z \notin tab.elements
  THEN [raised |-> "KeyError: .loc", df |-> <<>>]
  ELSE [raised |-> "none",
        df |-> [c \in 1..(Z + 1) |->
                  [name   |-> ToString(c - 1),
                   values |-> [k \in 1..tab.n_shells |->
                                 [q |-> "ion_number_density", time |-> tab.time,
                                  Z |-> Z, ion |-> c - 1, shell |-> k]]]]]

\* the frame of block i of IonFracOutputFile.write
ionfrac_frame(o, i) ==
  df_insert_checked(ion_table_loc_T(o.data_table[i], o.species_num),
                    "vel_mid", o.vel_mid)

RECURSIVE ionfrac_blocks(_, _)
\* the blocks i, i+1, ... of IonFracOutputFile.write, up to the first failure
ionfrac_blocks(o, i) ==
  IF i > Len(o.times) THEN [raised |-> "none", lines |-> <<>>]
  ELSE LET head  == <<Line("#TIME: {}", <<o.times[i]>>),
                      Line("#NVEL: {}", <<Len(o.vel_mid)>>)>>
           frame == ionfrac_frame(o, i)
           rest  == ionfrac_blocks(o, i + 1)
       IN  IF frame.raised # "none"
           THEN [raised |-> frame.raised, lines |-> head]
           ELSE [raised |-> rest.raised,
                 lines  |-> head
                              \o <<Line("column_description", o.column_description)>>
                              \o to_csv(frame.df) \o rest.lines]

\* IonFracOutputFile.write: what is in the file when write returns or raises
ionfrac_write(o) ==
  LET blocks == ionfrac_blocks(o, 1)
  IN  [raised |-> blocks.raised,
       lines  |-> <<Line("#NTIMES: {}", <<Len(o.times)>>),
                    Line("#NSTAGES: {}", <<o.species_num>>),
                    Line("#TIMES[d]: {}", times_str(o)),
                    Line("#", <<>>)>>
                    \o blocks.lines]

\* ---------------------------------------------- physical-property exporter
\* PhysicalPropertyOutputFile.__init__
PhysicalPropertyOutputFile_init(times, data_table, model_name, data_first_column, vel_mid, temp, rho, ne) ==
  IF data_first_column # None
  THEN [raised |-> "TypeError: list.insert", obj |-> NoObj]
  ELSE [raised |-> "none",
        obj |-> [cls |-> "phys", times |-> times, data_table |-> data_table,
                 model_name |-> model_name, vel_mid |-> vel_mid,
                 temp |-> temp, rho |-> rho, ne |-> ne]]

\* np.sum(table.values, axis=0): per shell, the sum over the table's species
np_sum_axis0(tab) ==
  [k \in 1..tab.n_shells |->
     [op    |-> "sum",
      terms |-> {[q |-> "number_density", time |-> tab.time, species |-> sp,
                  shell |-> k] : sp \in 1..tab.n_species}]]

\* a frame whose columns are appended instead of inserted in front
phys_frame_appended(o, i) ==
  LET r == df_insert_checked(
             df_insert_checked(
               df_insert_checked(
                 df_insert_checked(
                   df_insert_checked([raised |-> "none", df |-> <<>>],
                                     "vel_mid", o.vel_mid),
                   "temp", o.temp[i]),
                 "rho", o.rho[i]),
               "ne", o.ne[i]),
             "natom", np_sum_axis0(o.data_table[i]))
  IN  r

\* the frame of block i of PhysicalPropertyOutputFile.write: natom, ne, rho,
\* temp and vel_mid, each inserted in front of the ones before
phys_frame(o, i) ==
  df_insert_checked(
    df_insert_checked(
      df_insert_checked(
        df_insert_checked(
          df_insert_checked([raised |-> "none", df |-> <<>>],
                            "natom", np_sum_axis0(o.data_table[i])),
          "ne", o.ne[i]),
        "rho", o.rho[i]),
      "temp", o.temp[i]),
    "vel_mid", o.vel_mid)

RECURSIVE phys_blocks(_, _)
\* the blocks i, i+1, ... of PhysicalPropertyOutputFile.write, up to the first
\* failure
phys_blocks(o, i) ==
  IF i > Len(o.times) THEN [raised |-> "none", lines |-> <<>>]
  ELSE LET head  == <<Line("#TIME: {}", <<o.times[i]>>),
                      Line("#NVEL: {}", <<Len(o.vel_mid)>>)>>
           frame == phys_frame(o, i)
           rest  == phys_blocks(o, i + 1)
       IN  IF frame.raised # "none"
           THEN [raised |-> frame.raised, lines |-> head]
           ELSE [raised |-> rest.raised,
                 lines  |-> head
                              \o <<Line("column_description",
                                        column_description(o.cls))>>
                              \o to_csv(frame.df) \o rest.lines]

\* PhysicalPropertyOutputFile.write: what is in the file when write returns
\* or raises
phys_write(o) ==
  LET blocks == phys_blocks(o, 1)
  IN  [raised |-> blocks.raised,
       lines  |-> <<Line("#NTIMES: {}", <<Len(o.times)>>),
                    Line("#TIMES[d]: {}", times_str(o)),
                    Line("#", <<>>)>>
                    \o blocks.lines]

\* ------------------------------------------------------------------ state
VARIABLES
  cls,          \* the exporter class in use
  simulations,  \* the list of simulations handed to from_simulations
  args,         \* the arguments of a direct construction, or NoArgs
  pc,           \* "start", "constructed", "raised" or "written"
  obj,          \* the output-file object, once constructed
  exc,          \* the exception that ended the export, or "none"
  v_grid,       \* result of a call of get_velocity_grid_from_simulations
  files         \* the files in the destination directory

vars == <<cls, simulations, args, pc, obj, exc, v_grid, files>>

\* strictly increasing velocity-midpoint arrays of 1..MaxShells shells
StrictlyIncreasing(v) == \A k \in 1..(Len(v) - 1) : v[k] < v[k + 1]

\* the two arrays of the documented scenario, [1000,2000,3000] and
\* [1500,2500,3500,4500] km/s, in units of 500 km/s
ScenarioA == <<2, 4, 6>>

ScenarioB == <<3, 5, 7, 9>>

\* arrays of a coarser spacing, for ratios (v_max - v_min)/min_delta_v that
\* are no multiple of a half
CoarseArrays == {<<1, 4>>, <<3, 6>>, <<2, 5, 8>>}

VMiddleArrays ==
  {v \in UNION {[1..n -> 1..MaxV] : n \in 1..MaxShells} : StrictlyIncreasing(v)}
    \cup {ScenarioA, ScenarioB} \cup CoarseArrays

\* the simulations a class reads: the velocity classes read v_middle, the
\* spectra class reads the spectrum (n_wave bins, the same for every simulation)
SimulationLists(c) ==
  IF c = "spectra"
  THEN UNION {{[s \in 1..n |-> [v_middle |-> <<>>, n_wave |-> w]] : w \in 1..MaxWave}
                : n \in 1..MaxSims}
  ELSE UNION {[1..n -> [v_middle : VMiddleArrays, n_wave : {0}]] : n \in 1..MaxSims}

ModelNames == {"toy06"}

NoArgs == [call |-> "from_simulations"]

\* the plasma's elements (atomic numbers) in a direct construction
ElementsChoices == {{1, 2, 20}, {1, 20}}

SpeciesSymbols == DOMAIN name_zz \cup {"Xx"}

\* the arguments of a direct construction, by their shapes: the arrays hold
\* symbolic cells
DirectArgs(c) ==
  CASE c = "ionfrac" ->
         [call : {"direct"}, n_times : 1..MaxSims, n_vel : 1..MaxShells,
          n_tab : 1..MaxShells, elements : ElementsChoices,
          species : SpeciesSymbols, first_column : {"None", "array"}]
    [] c = "phys" ->
         [call : {"direct"}, n_times : 1..MaxSims, n_vel : 1..MaxShells,
          n_tab : 1..MaxShells, n_species : 1..MaxSpecies,
          first_column : {"None", "array"}]
    [] OTHER -> {}

arg_times(a) == [i \in 1..a.n_times |-> [q |-> "times", idx |-> i]]

arg_vel_mid(a) == [k \in 1..a.n_vel |-> [q |-> "vel_mid", idx |-> k]]

arg_first_column(a) ==
  IF a.first_column = "None" THEN None ELSE Array(arg_vel_mid(a))

arg_ion_tables(a) ==
  [i \in 1..a.n_times |->
     [q |-> "ion_number_density", time |-> i, n_shells |-> a.n_tab,
      elements |-> a.elements]]

arg_density_tables(a) ==
  [i \in 1..a.n_times |->
     [q |-> "number_density", time |-> i, n_shells |-> a.n_tab,
      n_species |-> a.n_species]]

\* temp, rho or ne: per time, one value per shell of vel_mid
arg_property(a, name) ==
  [i \in 1..a.n_times |-> [k \in 1..a.n_vel |-> [q |-> name, time |-> i, idx |-> k]]]

NotCalled == [raised |-> "not called", grid |-> NoGrid]

Init ==
  /\ cls \in Classes
  /\ args \in {NoArgs} \cup DirectArgs(cls)
  /\ simulations \in IF args = NoArgs THEN SimulationLists(cls) ELSE {<<>>}
  /\ pc = "start"
  /\ obj = NoObj
  /\ exc = "none"
  /\ v_grid = NotCalled
  /\ files = {}

\* VelocityInterpolatedOutputFile.get_velocity_grid_from_simulations, called
\* on its own (it is a static method)
GetVelocityGrid ==
  /\ cls = "velocity"
  /\ v_grid = NotCalled
  /\ v_grid' = get_velocity_grid_from_simulations(simulations)
  /\ UNCHANGED <<cls, simulations, args, pc, obj, exc, files>>

\* cls.from_simulations(simulations, model_name)
FromSimulations ==
  /\ cls \in Exporters
  /\ args = NoArgs
  /\ pc = "start"
  /\ \E model_name \in ModelNames :
       LET r == from_simulations(cls, simulations, model_name)
       IN  /\ obj' = r.obj
           /\ exc' = r.raised
           /\ pc' = IF r.raised = "none" THEN "constructed" ELSE "raised"
  /\ UNCHANGED <<cls, simulations, args, v_grid, files>>

\* CodeComparisonOutputFile.write(dest) of a spectra, tgas or eden object
Write ==
  /\ pc = "constructed"
  /\ obj.cls \in {"spectra", "tgas", "eden"}
  /\ files' = {f \in files : f.fname # base_fname(obj)}
                \cup {[fname |-> base_fname(obj), lines |-> base_write(obj)]}
  /\ pc' = "written"
  /\ UNCHANGED <<cls, simulations, args, obj, exc, v_grid>>

\* IonFracOutputFile(times, data_table, model_name, data_first_column,
\*                   vel_mid, species)
IonFracInit ==
  /\ cls = "ionfrac"
  /\ args # NoArgs
  /\ pc = "start"
  /\ \E model_name \in ModelNames :
       LET r == IonFracOutputFile_init(arg_times(args), arg_ion_tables(args),
                                       model_name, arg_first_column(args),
                                       arg_vel_mid(args), args.species)
       IN  /\ obj' = r.obj
           /\ exc' = r.raised
           /\ pc' = IF r.raised = "none" THEN "constructed" ELSE "raised"
  /\ UNCHANGED <<cls, simulations, args, v_grid, files>>

\* PhysicalPropertyOutputFile(times, data_table, model_name, data_first_column,
\*                            vel_mid, temp, rho, ne)
PhysInit ==
  /\ cls = "phys"
  /\ args # NoArgs
  /\ pc = "start"
  /\ \E model_name \in ModelNames :
       LET r == PhysicalPropertyOutputFile_init(
                  arg_times(args), arg_density_tables(args), model_name,
                  arg_first_column(args), arg_vel_mid(args),
                  arg_property(args, "temp"), arg_property(args, "rho"),
                  arg_property(args, "ne"))
       IN  /\ obj' = r.obj
           /\ exc' = r.raised
           /\ pc' = IF r.raised = "none" THEN "constructed" ELSE "raised"
  /\ UNCHANGED <<cls, simulations, args, v_grid, files>>

\* IonFracOutputFile.write(dest): the file is opened (created or truncated)
\* and holds what was written before write returned or raised
IonFracWrite ==
  /\ pc = "constructed"
  /\ obj.cls = "ionfrac"
  /\ LET w == ionfrac_write(obj)
     IN  /\ files' = {f \in files : f.fname # ionfrac_fname(obj)}
                       \cup {[fname |-> ionfrac_fname(obj), lines |-> w.lines]}
         /\ exc' = w.raised
         /\ pc' = IF w.raised = "none" THEN "written" ELSE "raised"
  /\ UNCHANGED <<cls, simulations, args, obj, v_grid>>

\* PhysicalPropertyOutputFile.write(dest)
PhysWrite ==
  /\ pc = "constructed"
  /\ obj.cls = "phys"
  /\ LET w == phys_write(obj)
     IN  /\ files' = {f \in files : f.fname # base_fname(obj)}
                       \cup {[fname |-> base_fname(obj), lines |-> w.lines]}
         /\ exc' = w.raised
         /\ pc' = IF w.raised = "none" THEN "written" ELSE "raised"
  /\ UNCHANGED <<cls, simulations, args, obj, v_grid>>

Next ==
  \/ GetVelocityGrid
  \/ FromSimulations
  \/ Write
  \/ IonFracInit
  \/ PhysInit
  \/ IonFracWrite
  \/ PhysWrite

Spec == Init /\ [][Next]_vars

\* ------------------------------------------------- claims: velocity grid
VMiddles == [s \in DOMAIN simulations |-> simulations[s].v_middle]

GridCalled == v_grid # NotCalled

GridReturned == v_grid.raised = "none"

GridLen == Len(v_grid.grid.nums)

\* grid point i, times the grid's denominator
GridNum(i) == v_grid.grid.nums[i]

GridDen == v_grid.grid.den

GridIsGood ==
  /\ GridReturned
  /\ GridLen >= 2
  /\ GridDen > 0
  /\ \A i \in 1..(GridLen - 1) : GridNum(i) < GridNum(i + 1)
  /\ GridNum(1) = v_min(VMiddles) * GridDen
  /\ GridNum(GridLen) = v_max(VMiddles) * GridDen

\* C1 as stated: for every non-empty list of strictly increasing arrays the
\* call returns a grid that is strictly increasing, has at least two points,
\* starts at the global minimum and ends at the global maximum.
C1_Original == GridCalled => GridIsGood

\* C1 amended: the same, for lists in which every array has at least two
\* velocity midpoints.
C1_Amended ==
  (GridCalled /\ \A s \in DOMAIN VMiddles : Len(VMiddles[s]) >= 2) => GridIsGood

C1_Witness ==
  /\ GridCalled /\ GridReturned
  /\ Len(simulations) = 2
  /\ VMiddles[1] # VMiddles[2]

\* C2: the spacing of the returned grid, (v_max - v_min)/(num_points - 1), is
\* at most min_delta, the smallest successive difference of any input array.
C2_SpacingAtMostMinDelta ==
  (GridCalled /\ GridReturned) =>
    /\ GridLen >= 2
    /\ (v_max(VMiddles) - v_min(VMiddles)) <= min_delta_v(VMiddles) * (GridLen - 1)
    /\ \A i \in 1..(GridLen - 1) :
         GridNum(i + 1) - GridNum(i) <= min_delta_v(VMiddles) * GridDen

\* a grid whose ratio (v_max - v_min)/min_delta is no integer and was rounded down
C2_Witness ==
  /\ GridCalled /\ GridReturned
  /\ (v_max(VMiddles) - v_min(VMiddles)) % min_delta_v(VMiddles) # 0
  /\ (GridLen - 2) * min_delta_v(VMiddles) < v_max(VMiddles) - v_min(VMiddles)

IsScenario ==
  \/ VMiddles = <<ScenarioA, ScenarioB>>
  \/ VMiddles = <<ScenarioB, ScenarioA>>

\* num_points - 2 is (v_max - v_min)/min_delta rounded to the nearest integer
\* (a tie to the even one)
PointCountIsRounded ==
  LET R == v_max(VMiddles) - v_min(VMiddles)
      d == min_delta_v(VMiddles)
      k == GridLen - 2
  IN  /\ 2 * (k * d - R) <= d
      /\ 2 * (R - k * d) <= d
      /\ (2 * (k * d - R) = d \/ 2 * (R - k * d) = d) => k % 2 = 0

\* C8 as stated: num_points = round((v_max - v_min)/min_delta) + 2, and the
\* scenario's grid spans [1000, 4500] km/s with spacing <= 500 km/s (one
\* unit) and at least 9 points.
C8_Original ==
  (GridCalled /\ GridReturned) =>
    /\ PointCountIsRounded
    /\ IsScenario =>
         /\ GridNum(1) = 2 * GridDen
         /\ GridNum(GridLen) = 9 * GridDen
         /\ GridNum(2) - GridNum(1) <= 1 * GridDen
         /\ GridLen >= 9

\* C8 amended: num_points = round((v_max - v_min)/min_delta) + 2, and the
\* scenario's grid (min_delta 1000 km/s, 3500/1000 rounded to 4) spans
\* [1000, 4500] km/s with 6 points at a spacing of 700 km/s <= 1000 km/s.
C8_Amended ==
  (GridCalled /\ GridReturned) =>
    /\ PointCountIsRounded
    /\ IsScenario =>
         /\ GridNum(1) = 2 * GridDen
         /\ GridNum(GridLen) = 9 * GridDen
         /\ GridLen = 6
         /\ 5 * (GridNum(2) - GridNum(1)) = 7 * GridDen
         /\ min_delta_v(VMiddles) = 2

C8_Witness == GridCalled /\ GridReturned /\ IsScenario

\* ------------------------------------------------- claims: interpolation
Built == pc \in {"constructed", "written"}

\* the table of a tgas or eden object: column 1 is the grid, column 1 + s
\* belongs to simulation s
TableRows == df_len(obj.data_table)

GridCellAt(r) == obj.data_table[1].values[r]

StoredAt(s, r) == obj.data_table[1 + s].values[r]

OutsideRange(s, r) ==
  LET v == simulations[s].v_middle
      g == GridCellAt(r)
  IN  g.num < v[1] * g.den \/ g.num > v[Len(v)] * g.den

\* C3: in get_data_table, at every shared-grid point strictly below a
\* simulation's smallest velocity midpoint or strictly above its largest, the
\* value stored for that simulation is exactly the sentinel 1e-99, and the
\* shared grid spans the union of the ranges (also of disjoint ones).
C3_SentinelOutsideRange ==
  (Built /\ obj.cls \in {"tgas", "eden"}) =>
    /\ Len(obj.data_table) = 1 + Len(simulations)
    /\ \A s \in DOMAIN simulations : \A r \in 1..TableRows :
         OutsideRange(s, r) =>
           StoredAt(s, r) = [kind |-> "const", mant |-> 1, exp10 |-> -99]
    /\ GridCellAt(1).num = v_min(VMiddles) * GridCellAt(1).den
    /\ GridCellAt(TableRows).num = v_max(VMiddles) * GridCellAt(TableRows).den

\* two simulations of disjoint velocity ranges, each with a grid point outside
\* its own range
C3_Witness ==
  /\ Built /\ obj.cls \in {"tgas", "eden"}
  /\ Len(simulations) = 2
  /\ SeqMax(VMiddles[1]) < SeqMin(VMiddles[2])
  /\ \A s \in DOMAIN simulations : \E r \in 1..TableRows : OutsideRange(s, r)
  /\ \E r \in 2..(TableRows - 1) : OutsideRange(1, r) /\ OutsideRange(2, r)

\* ------------------------------------------ claims: construction, lookup
\* every simulation can be put on a grid (two shells or more); the spectra
\* class reads no velocities
ValidSimulations ==
  cls = "spectra" \/ \A s \in DOMAIN simulations : Len(simulations[s].v_middle) >= 2

\* C5: for every exporter type, from_simulations(simulations, model_name) with
\* valid simulations succeeds and returns an output file object of that type.
C5_FromSimulationsSucceeds ==
  (cls \in Exporters /\ args = NoArgs /\ pc # "start" /\ ValidSimulations) =>
    /\ Built
    /\ obj.cls = cls

UnknownSpecies ==
  cls = "ionfrac" /\ args # NoArgs /\ args.species \notin {"H", "He", "Li", "Ca"}

\* C6: for a species symbol the nuclide lookup does not know, the export fails
\* in the construction of the IonFracOutputFile, and no file exists at any
\* point of the execution.
C6_LookupFailsBeforeOpen ==
  UnknownSpecies =>
    /\ files = {}
    /\ obj = NoObj
    /\ pc \in {"start", "raised"}
    /\ (pc = "raised" /\ args.first_column = "None") => exc = "KeyError: name_zz"

C6_Witness ==
  UnknownSpecies /\ pc = "raised" /\ exc = "KeyError: name_zz" /\ files = {}

\* ---------------------------------------------------- claims: the files
TheFile == CHOOSE f \in files : TRUE

FileLines == TheFile.lines

\* the cells of body row r of the base writer's rows: the first-column value
\* (wavelength bin r, or point r of the evenly spaced grid), then one value of
\* each simulation
RowIsOfSimulations(row, r, rows) ==
  /\ Len(row.args) = 1 + Len(simulations)
  /\ \A c \in DOMAIN row.args : row.args[c].fmt = "%.6E"
  /\ IF cls = "spectra"
     THEN /\ row.args[1].v = [q |-> "wavelength", sim |-> 1, idx |-> r]
          /\ \A s \in DOMAIN simulations :
               row.args[1 + s].v =
                 [q |-> "luminosity_density_lambda", sim |-> s, idx |-> r]
     ELSE /\ row.args[1].v.kind = "v"
          /\ row.args[1].v.num * (rows - 1) =
               (v_min(VMiddles) * (rows - 1)
                  + (r - 1) * (v_max(VMiddles) - v_min(VMiddles))) * row.args[1].v.den
          /\ \A s \in DOMAIN simulations :
               \/ row.args[1 + s].v.kind = "const"
               \/ /\ row.args[1 + s].v.kind = "interp"
                  /\ row.args[1 + s].v.fp.sim = s
                  /\ row.args[1 + s].v.fp.q =
                       (IF cls = "tgas" THEN "t_electrons" ELSE "electron_densities")

\* C7: the base write emits '#NTIMES: n' (n simulations), '#N<FIRSTCOL>: r'
\* (r body rows; WAVE for spectra, VEL for tgas and eden), '#TIMES[d]:' with
\* the times in simulation order, the column description, and then exactly r
\* body rows in table order, each the first-column value followed by one
\* value per simulation, with no header row and no row index.
C7_BaseWriteLayout ==
  (pc = "written" /\ cls \in {"spectra", "tgas", "eden"}) =>
    /\ Cardinality(files) = 1
    /\ Len(FileLines) >= 4
    /\ FileLines[1] = [fmt |-> "#NTIMES: {}", args |-> <<Len(simulations)>>]
    /\ FileLines[2] =
         [fmt  |-> IF cls = "spectra" THEN "#NWAVE: {}" ELSE "#NVEL: {}",
          args |-> <<Len(FileLines) - 4>>]
    /\ FileLines[3] =
         [fmt  |-> "#TIMES[d]: {}",
          args |-> [s \in DOMAIN simulations |->
                      [q |-> "time_explosion[d]", sim |-> s]]]
    /\ FileLines[4].fmt = "column_description"
    /\ FileLines[4].args[1] =
         (IF cls = "spectra" THEN "#wavelength[Ang]" ELSE "#vel_mid[km/s]")
    /\ Len(FileLines) - 4 = df_len(obj.data_table)
    /\ \A r \in 1..(Len(FileLines) - 4) :
         /\ FileLines[4 + r].fmt = "csv"
         /\ RowIsOfSimulations(FileLines[4 + r], r, Len(FileLines) - 4)

C7_Witness ==
  /\ pc = "written" /\ cls \in {"tgas", "eden"}
  /\ Len(simulations) = 2
  /\ Len(FileLines) > 6

\* C4: the column-description line of an IonFracOutputFile for a species of
\* atomic number Z names the velocity column and then exactly the Z + 1
\* columns <species>0 .. <species>Z.
C4_HeaderHasZPlusOneStages ==
  (Built /\ obj.cls = "ionfrac") =>
    obj.column_description =
      <<"#vel_mid[km/s]">>
        \o [i \in 1..(name_zz[args.species] + 1) |->
              args.species \o ToString(i - 1)]

\* block i of a per-time file: the lines after the 'skip' heading lines, each
\* block 3 + n_vel lines long
BlockLine(skip, i, k) == FileLines[skip + (i - 1) * (3 + args.n_vel) + k]

\* C10: IonFracOutputFile.write emits one block per time in time order, each
\* with '#NVEL' and the column description, and every body row has the
\* velocity and then atomic_number + 1 stage fractions, as many fields as the
\* header line has names, '#NSTAGES' being the number of stage fractions.
C10_IonFracBlocks ==
  (pc = "written" /\ cls = "ionfrac") =>
    LET Z == name_zz[args.species]
    IN  /\ Len(FileLines) = 4 + args.n_times * (3 + args.n_vel)
        /\ \A i \in 1..args.n_times :
             /\ BlockLine(4, i, 1) = [fmt |-> "#TIME: {}",
                                      args |-> <<[q |-> "times", idx |-> i]>>]
             /\ BlockLine(4, i, 2) = [fmt |-> "#NVEL: {}", args |-> <<args.n_vel>>]
             /\ BlockLine(4, i, 3).fmt = "column_description"
             /\ \A k \in 1..args.n_vel :
                  /\ BlockLine(4, i, 3 + k).fmt = "csv"
                  /\ Len(BlockLine(4, i, 3 + k).args) = 1 + (Z + 1)
                  /\ Len(BlockLine(4, i, 3 + k).args) = Len(BlockLine(4, i, 3).args)
                  /\ FileLines[2] = [fmt  |-> "#NSTAGES: {}",
                                     args |-> <<Len(BlockLine(4, i, 3 + k).args) - 1>>]

\* C9: PhysicalPropertyOutputFile.write emits '#NTIMES' and '#TIMES[d]' once,
\* then one block per time in time order: '#TIME', '#NVEL: len(vel_mid)', the
\* column description and len(vel_mid) body rows of velocity midpoint,
\* temperature, density, electron density and total atom number density (the
\* sum over the species of that time's table for that shell).
C9_PhysBlocks ==
  (pc = "written" /\ cls = "phys") =>
    /\ Cardinality(files) = 1
    /\ Len(FileLines) = 3 + args.n_times * (3 + args.n_vel)
    /\ FileLines[1] = [fmt |-> "#NTIMES: {}", args |-> <<args.n_times>>]
    /\ FileLines[2] = [fmt |-> "#TIMES[d]: {}",
                       args |-> [i \in 1..args.n_times |-> [q |-> "times", idx |-> i]]]
    /\ Cardinality({l \in DOMAIN FileLines :
                      FileLines[l].fmt \in {"#NTIMES: {}", "#TIMES[d]: {}"}}) = 2
    /\ \A i \in 1..args.n_times :
         /\ BlockLine(3, i, 1) = [fmt |-> "#TIME: {}",
                                  args |-> <<[q |-> "times", idx |-> i]>>]
         /\ BlockLine(3, i, 2) = [fmt |-> "#NVEL: {}", args |-> <<args.n_vel>>]
         /\ BlockLine(3, i, 3) =
              [fmt  |-> "column_description",
               args |-> <<"#vel_mid[km/s]", "temp[K]", "rho[gcc]", "ne[/cm^3]",
                          "natom[/cm^3]">>]
         /\ \A k \in 1..args.n_vel :
              /\ BlockLine(3, i, 3 + k).fmt = "csv"
              /\ [c \in 1..5 |-> BlockLine(3, i, 3 + k).args[c].v] =
                   <<[q |-> "vel_mid", idx |-> k],
                     [q |-> "temp", time |-> i, idx |-> k],
                     [q |-> "rho", time |-> i, idx |-> k],
                     [q |-> "ne", time |-> i, idx |-> k],
                     [op |-> "sum",
                      terms |-> {[q |-> "number_density", time |-> i,
                                  species |-> sp, shell |-> k]
                                   : sp \in 1..args.n_species}]>>
              /\ Len(BlockLine(3, i, 3 + k).args) = 5

C9_Witness ==
  /\ pc = "written" /\ cls = "phys"
  /\ args.n_times = 2 /\ args.n_vel >= 2 /\ args.n_species = 2
====
